---- MODULE Spec2Model ----
(***************************************************************************)
(* Model of the edugen render service (POST /render, POST /asy) and of    *)
(* its helpers cmdExists, findFileRecursive, findAsyOutput and cleanup.   *)
(*                                                                         *)
(* Strings that the code takes apart (file names, the submitted source)   *)
(* are sequences of tokens; a file name "out-0.svg" is                    *)
(* <<"out", "-0", ".", "svg">>.  A path is a sequence of names.           *)
(***************************************************************************)
EXTENDS Integers, Sequences, FiniteSets, TLC

VARIABLES
  env,      \* the process environment read at start-up (MANIM_BIN)
  req,      \* the render request: its closure variables and handler positions
  fs,       \* the temporary area: workspace directory id -> listing (a tree)
  probe,    \* a stand-alone cmdExists(cmd, args) invocation
  loc,      \* a stand-alone artifact-locator invocation
  other,    \* a second render request, while the first is the one taking steps
  proxy,    \* a request to /api/manim-proxy or /api/asy-proxy (web server)
  gen,      \* a request to /api/gen-video (web server)
  share     \* the share store and the requests to /api/share (web server)

vars == <<env, req, fs, probe, loc, other, proxy, gen, share>>
web == <<proxy, gen, share>>             \* the state of the web server's requests

(***************************************************************************)
(* Bounds                                                                  *)
(***************************************************************************)
MaxEntries == 2      \* entries in the root listing of a workspace tree
MaxSubEntries == 1   \* entries in the listing of a sub-directory
MaxData == 1         \* data events per output stream of the child

(***************************************************************************)
(* Generic helpers                                                         *)
(***************************************************************************)
Last(s) == s[Len(s)]
Front(s) == SubSeq(s, 1, Len(s) - 1)
Range(s) == {s[i] : i \in 1..Len(s)}
IsSuffix(suf, s) ==
  /\ Len(suf) <= Len(s)
  /\ SubSeq(s, Len(s) - Len(suf) + 1, Len(s)) = suf
SeqsUpTo(S, n) == UNION {[1..k -> S] : k \in 0..n}

(***************************************************************************)
(* JavaScript values of the request body                                   *)
(***************************************************************************)
Undefined == [t |-> "undefined"]
Str(s) == [t |-> "string", s |-> s]
Num(n) == [t |-> "number", n |-> n]

\* !v for the values a JSON body can carry here
Falsy(v) ==
  \/ v.t = "undefined"
  \/ v.t = "string" /\ v.s = <<>>
  \/ v.t = "number" /\ v.n = 0

\* const { x = dflt } = body : the default applies to undefined only
Default(v, dflt) == IF v.t = "undefined" THEN Str(dflt) ELSE v

\* String.prototype.toLowerCase on the selector strings of the model
toLowerCase(s) ==
  CASE s = "QH" -> "qh"
    [] s = "GIF" -> "gif"
    [] s = "SVG" -> "svg"
    [] OTHER -> s

\* the string a value is coerced to where the code uses it as one
text(v) == IF v.t = "string" THEN v.s ELSE IF v.t = "number" THEN <<"7">> ELSE <<"undefined">>

\* /(\bMathTex\s*\(|\bTex\s*\()/.test(code), code a sequence of maximal
\* tokens: a word, a run of white space " ", or the character "("
usesLatexRe(code) ==
  \E i \in 1..Len(code) :
     /\ code[i] \in {"Tex", "MathTex"}
     /\ \/ i + 1 <= Len(code) /\ code[i + 1] = "("
        \/ i + 2 <= Len(code) /\ code[i + 1] = " " /\ code[i + 2] = "("

\* /^q[lmhpk]$/.test(qFlag)
qualityRe(qFlag) == qFlag \in {"ql", "qm", "qh", "qp", "qk"}

(***************************************************************************)
(* cmdExists(cmd, args): the availability prober                           *)
(***************************************************************************)
\* What spawning a binary does on the host: spawn() throws synchronously, or
\* the child emits 'error' and 'close' events in some order.
ErrorEv == [ev |-> "error", code |-> 0, signal |-> FALSE]
CloseEv(c) == [ev |-> "close", code |-> c, signal |-> FALSE]
KilledEv == [ev |-> "close", code |-> 0, signal |-> TRUE]   \* close(null, sig)

ExitCodes == {0, 1, 2, 127, -2}
CloseEvs == {CloseEv(c) : c \in ExitCodes} \cup {KilledEv}

Throws == [throws |-> TRUE, events |-> <<>>]
Emits(evs) == [throws |-> FALSE, events |-> evs]
\* a missing binary: Node emits 'error' (ENOENT) and then 'close' with -2
Absent == Emits(<<ErrorEv, CloseEv(-2)>>)

ProbeBehaviours ==
  {Throws, Emits(<<ErrorEv>>)}
    \cup {Emits(<<c>>) : c \in CloseEvs}
    \cup {Emits(<<ErrorEv, c>>) : c \in CloseEvs}
    \cup {Emits(<<c, ErrorEv>>) : c \in CloseEvs}

\* code === n, for the code argument of a 'close' event (null after a signal)
CodeIs(e, n) == ~e.signal /\ e.code = n

\* new Promise(...) and its resolve function: the first settlement stands
NewPromise == [settled |-> "pending", value |-> FALSE]
resolve(p, v) ==
  IF p.settled = "pending"
    THEN [p EXCEPT !.settled = "resolved", !.value = v]
    ELSE p

\* child.on('close', (code) => resolve(code === 0 || code === 1))
onCloseStrict(e) == CodeIs(e, 0)
onCloseValue(e) == CodeIs(e, 0) \/ CodeIs(e, 1)

\* one event of the probe's child reaching its handler
onProbeEvent(p, e) ==
  IF e.ev = "error" THEN resolve(p, FALSE) ELSE resolve(p, onCloseValue(e))

RECURSIVE deliverAll(_, _)
deliverAll(p, evs) ==
  IF evs = <<>> THEN p ELSE deliverAll(onProbeEvent(p, Head(evs)), Tail(evs))

\* the promise cmdExists returns, once the child's events have all fired
cmdExists(beh) ==
  IF beh.throws THEN resolve(NewPromise, FALSE)
  ELSE deliverAll(NewPromise, beh.events)

\* ---- the prober run on its own, event by event, calls in succession ----
ProbeCalls == 2   \* calls made in succession by the stand-alone prober

ProbeIdle == [beh |-> Throws, calls |-> <<>>, results |-> <<>>]

\* the promise executor: spawn, register the handlers; catch -> resolve(false)
newProbeCallShared(beh) ==
  IF probe.calls # <<>>
    THEN [pending |-> beh.events, fired |-> <<>>,
          promise |-> resolve(NewPromise, ~probe.calls[1].promise.value)]
  ELSE IF beh.throws
    THEN [pending |-> <<>>, fired |-> <<>>, promise |-> resolve(NewPromise, FALSE)]
    ELSE [pending |-> beh.events, fired |-> <<>>, promise |-> NewPromise]
newProbeCall(beh) ==
  IF beh.throws
    THEN [pending |-> <<>>, fired |-> <<>>, promise |-> resolve(NewPromise, FALSE)]
    ELSE [pending |-> beh.events, fired |-> <<>>, promise |-> NewPromise]

\* cmdExists(cmd, args) is called once the previous call's result is known
ProbeCall ==
  /\ Len(probe.calls) = Len(probe.results)
  /\ Len(probe.calls) < ProbeCalls
  /\ probe' = [probe EXCEPT !.calls = Append(@, newProbeCall(probe.beh))]
  /\ UNCHANGED <<env, req, fs, loc, other, web>>

\* the next event of the i-th call's child reaches its handler
ProbeEvent(i) ==
  /\ probe.calls[i].pending # <<>>
  /\ LET c == probe.calls[i]
         e == Head(c.pending)
     IN probe' = [probe EXCEPT !.calls[i] =
                    [pending |-> Tail(c.pending),
                     fired |-> Append(c.fired, e),
                     promise |-> onProbeEvent(c.promise, e)]]
  /\ UNCHANGED <<env, req, fs, loc, other, web>>

\* the caller's await resumes with the resolved value
ProbeAwait ==
  /\ Len(probe.results) < Len(probe.calls)
  /\ probe.calls[Len(probe.calls)].promise.settled = "resolved"
  /\ probe' = [probe EXCEPT
                 !.results = Append(@, probe.calls[Len(probe.calls)].promise.value)]
  /\ UNCHANGED <<env, req, fs, loc, other, web>>

(***************************************************************************)
(* Directory trees and the artifact locators                               *)
(***************************************************************************)
\* A directory listing is the sequence fs.readdir returns (its order is the
\* file system's); an entry is a regular file, a directory with its own
\* listing, or something else (a symbolic link, a socket).
FileEnt(n) == [name |-> n, kind |-> "file", sub |-> <<>>, bytes |-> <<>>]
OtherEnt(n) == [name |-> n, kind |-> "other", sub |-> <<>>, bytes |-> <<>>]
DirEnt(n, listing) == [name |-> n, kind |-> "dir", sub |-> listing, bytes |-> <<>>]
FileOf(n, bytes) == [FileEnt(n) EXCEPT !.bytes = bytes]   \* a file and its content
NoEnt == [name |-> <<>>, kind |-> "none", sub |-> <<>>, bytes |-> <<>>]

\* the entry a relative path names in a listing, NoEnt when there is none
RECURSIVE entryAt(_, _)
entryAt(listing, names) ==
  IF names = <<>> THEN NoEnt
  ELSE LET hits == {i \in 1..Len(listing) : listing[i].name = Head(names)}
       IN IF hits = {} THEN NoEnt
          ELSE LET e == listing[CHOOSE i \in hits : TRUE]
               IN IF Len(names) = 1 THEN e
                  ELSE IF e.kind = "dir" THEN entryAt(e.sub, Tail(names))
                  ELSE NoEnt

Null == <<>>                 \* the null a locator returns; a path is never empty
join(dir, name) == Append(dir, name)     \* path.join(cur, ent.name)

\* `${stem}.${ext}`, `${stem}-0.${ext}`, `${stem}-1.${ext}`
preferredNames(stem, ext) ==
  {stem \o <<".">> \o ext, stem \o <<"-0", ".">> \o ext, stem \o <<"-1", ".">> \o ext}

\* ent.name.endsWith('.' + ext)
endsWithExt(name, ext) == IsSuffix(<<".">> \o ext, name)

\* one pass of `for (const ent of entries)` of findFileRecursive, from entry i
RECURSIVE scanFileAnyKind(_, _, _, _)
scanFileAnyKind(cur, i, stack, fileName) ==
  IF i > Len(cur.ents) THEN [found |-> Null, stack |-> stack]
  ELSE LET ent == cur.ents[i]
           p == join(cur.path, ent.name)
       IN IF ent.kind = "dir"
            THEN scanFileAnyKind(cur, i + 1,
                                 Append(stack, [path |-> p, ents |-> ent.sub]), fileName)
          ELSE IF ent.name = fileName
            THEN [found |-> p, stack |-> stack]
          ELSE scanFileAnyKind(cur, i + 1, stack, fileName)

RECURSIVE scanFile(_, _, _, _)
scanFile(cur, i, stack, fileName) ==
  IF i > Len(cur.ents) THEN [found |-> Null, stack |-> stack]
  ELSE LET ent == cur.ents[i]
           p == join(cur.path, ent.name)
       IN IF ent.kind = "dir"
            THEN scanFile(cur, i + 1, Append(stack, [path |-> p, ents |-> ent.sub]),
                          fileName)
          ELSE IF ent.kind = "file" /\ ent.name = fileName
            THEN [found |-> p, stack |-> stack]
          ELSE scanFile(cur, i + 1, stack, fileName)

\* `while (stack.length) { const cur = stack.pop(); ... }`
RECURSIVE walkFile(_, _)
walkFile(stack, fileName) ==
  IF stack = <<>> THEN Null
  ELSE LET r == scanFile(Last(stack), 1, Front(stack), fileName)
       IN IF r.found # Null THEN r.found ELSE walkFile(r.stack, fileName)

findFileRecursive(dir, listing, fileName) ==
  walkFile(<<[path |-> dir, ents |-> listing]>>, fileName)

\* one pass of the entry loop of findAsyOutput
RECURSIVE scanAsyEager(_, _, _, _, _, _)
scanAsyEager(cur, i, stack, candidates, preferred, ext) ==
  IF i > Len(cur.ents)
    THEN [found |-> Null, stack |-> stack, candidates |-> candidates]
  ELSE LET ent == cur.ents[i]
           p == join(cur.path, ent.name)
       IN IF ent.kind = "dir"
            THEN scanAsyEager(cur, i + 1, Append(stack, [path |-> p, ents |-> ent.sub]),
                              candidates, preferred, ext)
          ELSE IF ent.kind = "file" /\ (ent.name \in preferred \/ endsWithExt(ent.name, ext))
            THEN [found |-> p, stack |-> stack, candidates |-> candidates]
          ELSE scanAsyEager(cur, i + 1, stack, candidates, preferred, ext)

RECURSIVE scanAsy(_, _, _, _, _, _)
scanAsy(cur, i, stack, candidates, preferred, ext) ==
  IF i > Len(cur.ents)
    THEN [found |-> Null, stack |-> stack, candidates |-> candidates]
  ELSE LET ent == cur.ents[i]
           p == join(cur.path, ent.name)
       IN IF ent.kind = "dir"
            THEN scanAsy(cur, i + 1, Append(stack, [path |-> p, ents |-> ent.sub]),
                         candidates, preferred, ext)
          ELSE IF ent.kind = "file"
            THEN IF ent.name \in preferred
                   THEN [found |-> p, stack |-> stack, candidates |-> candidates]
                 ELSE scanAsy(cur, i + 1, stack,
                              IF endsWithExt(ent.name, ext)
                                THEN Append(candidates, p) ELSE candidates,
                              preferred, ext)
          ELSE scanAsy(cur, i + 1, stack, candidates, preferred, ext)

RECURSIVE walkAsy(_, _, _, _)
walkAsy(stack, candidates, preferred, ext) ==
  IF stack = <<>>
    THEN IF candidates # <<>> THEN candidates[1] ELSE Null   \* candidates[0] || null
  ELSE LET r == scanAsy(Last(stack), 1, Front(stack), candidates, preferred, ext)
       IN IF r.found # Null THEN r.found
          ELSE walkAsy(r.stack, r.candidates, preferred, ext)

findAsyOutput(dir, listing, ext, stem) ==
  walkAsy(<<[path |-> dir, ents |-> listing]>>, <<>>, preferredNames(stem, ext), ext)

\* ---- the locators run on their own over bounded trees ----
Work == << <<"work">> >>          \* the path of the workspace root

NOutSvg == <<"out", ".", "svg">>
NOut0Svg == <<"out", "-0", ".", "svg">>
NOut1Svg == <<"out", "-1", ".", "svg">>
NFigSvg == <<"fig", ".", "svg">>
NOutMp4 == <<"out", ".", "mp4">>
NOutGif == <<"out", ".", "gif">>
NOutMp4Bak == <<"out", ".", "mp4", ".", "bak">>
NMedia == <<"media">>
NDeep == <<"deep">>

DistinctNames(listing) ==
  \A i, j \in 1..Len(listing) : listing[i].name = listing[j].name => i = j
Listings(pool, n) == {l \in SeqsUpTo(pool, n) : DistinctNames(l)}

LocSubPool ==
  {FileEnt(NOutSvg), FileEnt(NOut1Svg), FileEnt(NFigSvg), FileEnt(NOutMp4),
   DirEnt(NDeep, <<FileEnt(NOutSvg), FileEnt(NOutMp4)>>)}
LocRootPool ==
  {FileEnt(n) : n \in {NOutSvg, NOut0Svg, NOut1Svg, NFigSvg, NOutMp4, NOutMp4Bak}}
    \cup {OtherEnt(NOutSvg), OtherEnt(NOutMp4)}
    \cup {DirEnt(d, l) : d \in {NMedia, NOutMp4}, l \in Listings(LocSubPool, MaxSubEntries)}
LocTrees == Listings(LocRootPool, MaxEntries)

LocIdle == [fn |-> "none", tree |-> <<>>, fileName |-> <<>>, ext |-> <<>>,
            stem |-> <<>>, pc |-> "off", result |-> Null]

LocFindFile ==
  /\ loc.pc = "call" /\ loc.fn = "findFileRecursive"
  /\ loc' = [loc EXCEPT !.pc = "returned",
                        !.result = findFileRecursive(Work, loc.tree, loc.fileName)]
  /\ UNCHANGED <<env, req, fs, probe, other, web>>

LocFindAsy ==
  /\ loc.pc = "call" /\ loc.fn = "findAsyOutput"
  /\ loc' = [loc EXCEPT !.pc = "returned",
                        !.result = findAsyOutput(Work, loc.tree, loc.ext, loc.stem)]
  /\ UNCHANGED <<env, req, fs, probe, other, web>>

(***************************************************************************)
(* The render endpoints: request state                                     *)
(***************************************************************************)
NoBin == "null"                   \* process.env.MANIM_BIN || null
EnvIdle == [MANIM_BIN |-> NoBin]
PYTHON_BIN == "python3"
ASY_BIN == "asy"
XVFB_BIN == "xvfb-run"
VenvBin == "REPO_ROOT/.manim-venv/bin/manim"

NoWork == [prefix |-> "none", suffix |-> "none"]
NoMissing == [latex |-> TRUE, dvisvgm |-> TRUE]
NoSeen == [latex |-> "none", dvisvgm |-> "none", asy |-> "none", venv |-> "none"]
NoCmd == [cmd |-> "none", argv |-> <<>>]
NoExit == [ev |-> "none", code |-> 0, signal |-> FALSE]
NoBody == [code |-> Undefined, quality |-> Undefined, format |-> Undefined]

ReqIdle ==
  [pc |-> "idle", ep |-> "none", body |-> NoBody, qFlag |-> "", fmt |-> "",
   work |-> NoWork, cmdCfg |-> NoCmd, useXvfb |-> FALSE,
   spawned |-> FALSE, errorFired |-> FALSE, closeFired |-> FALSE,
   stdout |-> <<>>, stderr |-> <<>>, responded |-> FALSE,
   closePc |-> "none", exit |-> NoExit, failure |-> "none", found |-> Null,
   responses |-> <<>>, cleanups |-> 0, rmPending |-> 0, rmFailed |-> FALSE,
   seen |-> NoSeen, trace |-> <<>>]

\* a JSON error response / a binary response, as the client receives it
JsonResp(status, error) ==
  [status |-> status, error |-> error, missing |-> NoMissing, exit |-> NoExit,
   stdout |-> <<>>, stderr |-> <<>>, hints |-> 0, details |-> "",
   ctype |-> "application/json", data |-> Null, length |-> 0]
BinResp(ctype, data) ==
  [status |-> 200, error |-> "", missing |-> NoMissing, exit |-> NoExit,
   stdout |-> <<>>, stderr |-> <<>>, hints |-> 0, details |-> "",
   ctype |-> ctype, data |-> data, length |-> Len(data)]

step(q, label) == [q EXCEPT !.trace = Append(@, label)]

\* res.status(..).json(..) / res.send(..): a response goes out
send(q, resp) == step([q EXCEPT !.responses = Append(@, resp)], "respond")

\* if (!responded) { responded = true; res... }
respondUnguarded(q, resp) == send([q EXCEPT !.responded = TRUE], resp)
respondOnce(q, resp) ==
  IF ~q.responded THEN send([q EXCEPT !.responded = TRUE], resp) ELSE q

\* cleanup(work): fs.rm(dir, {recursive, force}) is started, its error swallowed
cleanup(q) == step([q EXCEPT !.cleanups = @ + 1, !.rmPending = @ + 1], "release")

\* the route returns (early return, or the catch block has answered)
ended(q) == [q EXCEPT !.pc = "ended"]

\* catch (e) { res.status(500).json({ error: 'Server error', ... }) }
routeCatch(q) ==
  ended(send(q, [JsonResp(500, "Server error") EXCEPT !.details = "String(e)"]))

\* how the host answered a probe, as seen from outside the program
HostClass(beh) ==
  IF beh = Absent THEN "absent"
  ELSE IF cmdExists(beh).value THEN "ok" ELSE "bad"

\* what spawning a probed binary can do on the host
HostBehaviours == {Absent} \cup {Emits(<<CloseEv(c)>>) : c \in {0, 1, 2}}

(***************************************************************************)
(* POST /render and POST /asy: the route up to the spawn                   *)
(***************************************************************************)
CodeValues ==
  {Undefined, Str(<<>>), Num(7),
   Str(<<"x", "=", "Tex">>), Str(<<"Tex", "(">>), Str(<<"MathTex", " ", "(">>)}
QualityValues == {Undefined, Str("QH"), Str("zz")}
FormatValues == {Undefined, Str("GIF"), Str("svg"), Str("bad")}
Bodies == [code : CodeValues, quality : QualityValues, format : FormatValues]

\* if (!code || typeof code !== 'string')
codeFalsyOnly(code) == Falsy(code)
codeInvalid(code) == Falsy(code) \/ code.t # "string"

\* /render lines 84-94: the selectors are checked, then fs.mkdtemp is called
renderSelectors(q) ==
  LET qFlag == toLowerCase(Default(q.body.quality, "ql").s)
      fmt == toLowerCase(Default(q.body.format, "mp4").s)
      q1 == step([q EXCEPT !.qFlag = qFlag], "validate_quality")
      q2 == step([q1 EXCEPT !.fmt = fmt], "validate_format")
  IN IF ~qualityRe(qFlag)
       THEN ended(send(q1, JsonResp(400, "Invalid quality")))
     ELSE IF fmt \notin {"mp4", "gif"}
       THEN ended(send(q2, JsonResp(400, "Invalid format (mp4|gif)")))
     ELSE step([q2 EXCEPT !.pc = "mkdtemp"], "acquire")

\* /asy lines 198-202
asySelectors(q) ==
  LET fmt == toLowerCase(Default(q.body.format, "png").s)
      q1 == step([q EXCEPT !.fmt = fmt], "validate_format")
  IN IF fmt \notin {"png", "svg"}
       THEN ended(send(q1, JsonResp(400, "Invalid format (png|svg)")))
     ELSE step([q1 EXCEPT !.pc = "mkdtemp"], "acquire")

\* /render lines 55-67: up to the first await
renderReceive(q) ==
  IF codeInvalid(q.body.code)
    THEN ended(send(q, JsonResp(400, "Missing code (string)")))
  ELSE IF usesLatexRe(text(q.body.code))
    THEN step([q EXCEPT !.pc = "probeLatex"], "probe")
  ELSE renderSelectors(q)

\* /asy lines 181-186: up to the first await
asyReceive(q) ==
  IF codeInvalid(q.body.code)
    THEN ended(send(q, JsonResp(400, "Missing code (string)")))
  ELSE step([q EXCEPT !.pc = "probeAsy"], "probe")

Receive(ep, body) ==
  /\ req.pc = "idle"
  /\ LET q == step([req EXCEPT !.ep = ep, !.body = body], "validate_code")
     IN req' = IF ep = "render" THEN renderReceive(q) ELSE asyReceive(q)
  /\ UNCHANGED <<env, fs, probe, loc, other, web>>

\* missing: { latex: !!hasLatex, dvisvgm: !!hasDvisvgm }
missingSwapped(hasLatex, hasDvisvgm) == [latex |-> hasDvisvgm, dvisvgm |-> hasLatex]
missingOf(hasLatex, hasDvisvgm) == [latex |-> hasLatex, dvisvgm |-> hasDvisvgm]

\* /render lines 64-83: Promise.all of the two probes has resolved
latexProbed(q, bl, bd) ==
  LET hasLatex == cmdExists(bl).value
      hasDvisvgm == cmdExists(bd).value
      q1 == step([q EXCEPT !.seen.latex = HostClass(bl),
                           !.seen.dvisvgm = HostClass(bd)], "probe_done")
  IN IF ~hasLatex \/ ~hasDvisvgm
       THEN ended(send(q1, [JsonResp(422, "LaTeX toolchain not found") EXCEPT
                              !.missing = missingOf(hasLatex, hasDvisvgm),
                              !.hints = 3]))
     ELSE renderSelectors(q1)

ProbeLatexDone(bl, bd) ==
  /\ req.pc = "probeLatex"
  /\ req' = latexProbed(req, bl, bd)
  /\ UNCHANGED <<env, fs, probe, loc, other, web>>

\* /asy lines 186-199: the compiler probe has resolved
asyProbedSkip(q, b) == asySelectors(step([q EXCEPT !.seen.asy = HostClass(b)], "probe_done"))
asyProbed(q, b) ==
  LET hasAsy == cmdExists(b).value
      q1 == step([q EXCEPT !.seen.asy = HostClass(b)], "probe_done")
  IN IF ~hasAsy
       THEN ended(send(q1, [JsonResp(422, "Asymptote not found") EXCEPT !.hints = 2]))
     ELSE asySelectors(q1)

ProbeAsyDone(b) ==
  /\ req.pc = "probeAsy"
  /\ req' = asyProbed(req, b)
  /\ UNCHANGED <<env, fs, probe, loc, other, web>>

(***************************************************************************)
(* Workspace, source file, command selection and spawn                     *)
(***************************************************************************)
Suffixes == {"a", "b"}            \* the random suffixes fs.mkdtemp can draw
NoFiles == [d \in {} |-> <<>>]    \* an empty temporary area
Exists(d) == d \in DOMAIN fs
Removed(d) == [x \in DOMAIN fs \ {d} |-> fs[x]]

NScenePy == <<"scene", ".", "py">>
NMainAsy == <<"main", ".", "asy">>
SrcName(ep) == IF ep = "render" THEN NScenePy ELSE NMainAsy
NOutFmt(fmt) == <<"out", ".", fmt>>

\* /render lines 98-115: the arguments, and the preference MANIM_BIN, then
\* the bundled virtual environment, then python -m manim
renderArgs(q) ==
  <<"-", q.qFlag, "--format", q.fmt, "-o", "out", "work/scene.py", "GeneratedScene">>
renderCmdBare(q, preferredBin) ==
  IF preferredBin # NoBin
    THEN [cmd |-> preferredBin, argv |-> renderArgs(q)]
    ELSE [cmd |-> PYTHON_BIN, argv |-> renderArgs(q)]
renderCmd(q, preferredBin) ==
  IF preferredBin # NoBin
    THEN [cmd |-> preferredBin, argv |-> renderArgs(q)]
    ELSE [cmd |-> PYTHON_BIN, argv |-> <<"-m", "manim">> \o renderArgs(q)]

\* /asy lines 206-213
asyArgs(q) == <<"-f", q.fmt, "-tex", "pdflatex", "-o", "out", "work/main.asy">>
asyCmd(q, useXvfb) ==
  IF useXvfb
    THEN [cmd |-> XVFB_BIN,
          argv |-> <<"-a", "-s", "-screen 0 1280x1024x24 -ac +extension GLX", ASY_BIN>>
                     \o asyArgs(q)]
    ELSE [cmd |-> ASY_BIN, argv |-> asyArgs(q)]

\* spawn(cmd, argv, {cwd: work}) and the registration of the handlers; a
\* synchronous throw lands in the route's catch block
spawnChild(q, cmdCfg, throws) ==
  LET q1 == step([q EXCEPT !.cmdCfg = cmdCfg], "spawn")
  IN IF throws THEN routeCatch(q1)
     ELSE [q1 EXCEPT !.spawned = TRUE, !.pc = "spawned"]

\* await fs.mkdtemp(...) settles; fs.writeFile is called
MkdtempDone(ok, sfx) ==
  /\ req.pc = "mkdtemp"
  /\ LET d == [prefix |-> IF req.ep = "render" THEN "manim-" ELSE "asy-", suffix |-> sfx]
     IN IF ok
          THEN /\ ~Exists(d)
               /\ fs' = fs @@ (d :> <<>>)
               /\ req' = step(step([req EXCEPT !.work = d, !.pc = "writeFile"],
                                   "acquire_done"), "write")
          ELSE /\ sfx = CHOOSE x \in Suffixes : TRUE
               /\ fs' = fs
               /\ req' = routeCatch(req)
  /\ UNCHANGED <<env, probe, loc, other, web>>

\* await fs.writeFile(...) settles
WriteFileDone(ok, throws) ==
  /\ req.pc = "writeFile"
  /\ IF ~ok
       THEN /\ ~throws
            /\ fs' = fs
            /\ req' = routeCatch(req)
       ELSE /\ fs' = [fs EXCEPT ![req.work] = <<FileEnt(SrcName(req.ep))>>]
            /\ LET q1 == step(req, "write_done")
               IN IF req.ep = "asy"
                    THEN /\ ~throws
                         /\ req' = step([q1 EXCEPT !.pc = "probeXvfb"], "probe_wrapper")
                  ELSE IF env.MANIM_BIN = NoBin
                    THEN /\ ~throws
                         /\ req' = step([q1 EXCEPT !.pc = "statVenv"], "select")
                  ELSE req' = spawnChild(q1, renderCmd(q1, env.MANIM_BIN), throws)
  /\ UNCHANGED <<env, probe, loc, other, web>>

\* try { await fs.stat(venvBin); preferredBin = venvBin; } catch {}
StatVenvDone(exists, throws) ==
  /\ req.pc = "statVenv"
  /\ req' = spawnChild([req EXCEPT !.seen.venv = IF exists THEN "yes" ELSE "no"],
                        renderCmd(req, IF exists THEN VenvBin ELSE NoBin), throws)
  /\ UNCHANGED <<env, fs, probe, loc, other, web>>

\* const useXvfb = await cmdExists(XVFB_BIN, ['--help']).catch(() => false)
ProbeXvfbDone(b, throws) ==
  /\ req.pc = "probeXvfb"
  /\ LET useXvfb == cmdExists(b).value
     IN req' = spawnChild([req EXCEPT !.useXvfb = useXvfb], asyCmd(req, useXvfb), throws)
  /\ UNCHANGED <<env, fs, probe, loc, other, web>>

(***************************************************************************)
(* The child's events and the handlers of the route                        *)
(***************************************************************************)
\* what the tool can leave in the workspace when it exits with code 0
ChildTrees(ep, fmt) ==
  LET src == FileEnt(SrcName(ep))
      out == NOutFmt(fmt)
  IN IF ep = "render"
       THEN {<<src>>,
             <<src, DirEnt(NMedia, <<FileOf(out, <<7, 7>>)>>)>>,
             <<src, FileOf(out \o <<".", "bak">>, <<9>>), DirEnt(out, <<>>)>>}
       ELSE {<<src>>,
             <<src, FileOf(out, <<7>>)>>,
             <<FileOf(<<"out", "-1", ".", fmt>>, <<1, 1>>), src,
               FileOf(<<"out", "-0", ".", fmt>>, <<0>>)>>,
             <<src, DirEnt(NMedia, <<FileOf(<<"fig", ".", fmt>>, <<5, 5, 5>>)>>)>>}

\* child.stdout.on('data', d => stdout += d) / child.stderr.on('data', ...)
ChildData(stream) ==
  /\ req.spawned /\ ~req.closeFired
  /\ IF stream = "stdout"
       THEN /\ Len(req.stdout) < MaxData
            /\ req' = [req EXCEPT !.stdout = Append(@, Len(@) + 1)]
       ELSE /\ Len(req.stderr) < MaxData
            /\ req' = [req EXCEPT !.stderr = Append(@, Len(@) + 1)]
  /\ UNCHANGED <<env, fs, probe, loc, other, web>>

\* child.on('error', ...)
errorHandler(q) ==
  cleanup(respondOnce(step([q EXCEPT !.errorFired = TRUE], "error"),
                      [JsonResp(500, "Failed to run") EXCEPT !.details = "String(err)"]))

ChildError ==
  /\ req.spawned /\ ~req.errorFired
  /\ req' = errorHandler(req)
  /\ UNCHANGED <<env, fs, probe, loc, other, web>>

\* child.on('close', ...) up to its first await
closeHandlerBare(q, e) ==
  LET q1 == step([q EXCEPT !.closeFired = TRUE, !.exit = e], "exit")
  IN IF ~CodeIs(e, 0)
       THEN [cleanup(respondOnce(q1, [JsonResp(500, "render failed") EXCEPT !.exit = e]))
               EXCEPT !.closePc = "done", !.failure = "nonzero"]
       ELSE step([q1 EXCEPT !.closePc = "finding"], "locate")
closeHandler(q, e) ==
  LET q1 == step([q EXCEPT !.closeFired = TRUE, !.exit = e], "exit")
  IN IF ~CodeIs(e, 0)
       THEN [cleanup(respondOnce(q1, [JsonResp(500, "render failed") EXCEPT
                                        !.exit = e, !.stdout = q.stdout,
                                        !.stderr = q.stderr]))
               EXCEPT !.closePc = "done", !.failure = "nonzero"]
       ELSE step([q1 EXCEPT !.closePc = "finding"], "locate")

ChildClose(e, tree) ==
  /\ req.spawned /\ ~req.closeFired
  /\ IF CodeIs(e, 0) /\ Exists(req.work)
       THEN fs' = [fs EXCEPT ![req.work] = tree]
       ELSE /\ fs' = fs
            /\ tree = <<FileEnt(SrcName(req.ep))>>
  /\ req' = closeHandler(req, e)
  /\ UNCHANGED <<env, probe, loc, other, web>>

\* the locator call of the close handler: findFileRecursive(work, wanted) for
\* /render, findAsyOutput(work, ext, outStem) for /asy
locate(q, listing) ==
  IF q.ep = "render"
    THEN findFileRecursive(<<q.work>>, listing,
                           IF q.fmt = "gif" THEN NOutGif ELSE NOutMp4)
    ELSE findAsyOutput(<<q.work>>, listing,
                       IF q.fmt = "svg" THEN <<"svg">> ELSE <<"png">>, <<"out">>)

\* catch (e) { ... 'Failed to send file' ... } finally { cleanup(work) }
sendCatchOk(q) ==
  [cleanup(respondOnce(q, BinResp("application/octet-stream", <<>>)))
     EXCEPT !.closePc = "done", !.failure = "io"]
sendCatch(q) ==
  [cleanup(respondOnce(q, [JsonResp(500, "Failed to send file") EXCEPT
                             !.details = "String(e)"]))
     EXCEPT !.closePc = "done", !.failure = "io"]

\* if (!found) { ...; cleanup(work); return; }  and then the finally block
notFound(q) ==
  [cleanup(cleanup(respondOnce(q, [JsonResp(500, "Output not found") EXCEPT
                                     !.stdout = q.stdout, !.stderr = q.stderr])))
     EXCEPT !.closePc = "done", !.failure = "notfound"]

\* the await of the locator settles; fs.readFile(found) is called
FindDone(throws) ==
  /\ req.closePc = "finding"
  /\ ~Exists(req.work) => throws
  /\ LET q1 == step(req, "locate_done")
     IN IF throws THEN req' = sendCatch(q1)
        ELSE LET found == locate(req, fs[req.work])
             IN IF found = Null THEN req' = notFound(q1)
                ELSE req' = step([q1 EXCEPT !.found = found, !.closePc = "reading"], "read")
  /\ UNCHANGED <<env, fs, probe, loc, other, web>>

\* res.setHeader('Content-Type', fmt === 'gif' ? 'image/gif' : 'video/mp4')
ContentTypeDefault(q) == IF q.ep = "render" THEN "video/mp4" ELSE "image/png"
ContentType(q) ==
  IF q.ep = "render"
    THEN (IF q.fmt = "gif" THEN "image/gif" ELSE "video/mp4")
    ELSE (IF q.fmt = "svg" THEN "image/svg+xml" ELSE "image/png")

\* fs.readFile(found): the file the path names now, if there is one
readFile(path) ==
  IF Exists(Head(path)) THEN entryAt(fs[Head(path)], Tail(path)) ELSE NoEnt

\* the await of fs.readFile settles
ReadDone(ok) ==
  /\ req.closePc = "reading"
  /\ ok => readFile(req.found).kind = "file"
  /\ LET q1 == step(req, "read_done")
         data == readFile(req.found).bytes
     IN req' = IF ok
                 THEN [cleanup(respondOnce(q1, BinResp(ContentType(q1), data)))
                         EXCEPT !.closePc = "done"]
                 ELSE sendCatch(q1)
  /\ UNCHANGED <<env, fs, probe, loc, other, web>>

\* a pending fs.rm(dir, {recursive: true, force: true}) settles
RmDone(ok) ==
  /\ req.rmPending > 0
  /\ req' = [req EXCEPT !.rmPending = @ - 1, !.rmFailed = @ \/ ~ok]
  /\ fs' = IF ok THEN Removed(req.work) ELSE fs
  /\ UNCHANGED <<env, probe, loc, other, web>>

\* Node runs the handlers of two requests in turn on one thread: the request
\* whose handler runs next becomes the current one, the other one waits
Switch ==
  /\ req' = other /\ other' = req
  /\ UNCHANGED <<env, fs, probe, loc, web>>

(***************************************************************************)
(* Web server: POST /api/manim-proxy and POST /api/asy-proxy               *)
(***************************************************************************)
\* process.env.MANIM_SERVICE_URL: unset, empty, or a URL as a sequence of
\* tokens, the character "/" being a token of its own
NoTarget == [t |-> "undefined"]
Targets ==
  {NoTarget, Str(<<>>), Str(<<"http://svc">>), Str(<<"http://svc", "/">>)}

\* target.replace(/\/$/, '') + path
stripSlash(u) == IF u # <<>> /\ Last(u) = "/" THEN Front(u) ELSE u
upstreamUrl(target, path) == stripSlash(target) \o <<path>>

\* the texts and byte strings an upstream body can be; a text parses as JSON
\* or does not
UpBodies ==
  {[raw |-> "{error:x}", parses |-> TRUE], [raw |-> "oops", parses |-> FALSE],
   [raw |-> "", parses |-> FALSE]}

\* function safeJson(s) { try { return JSON.parse(s); } catch { return s; } }
safeJson(b) ==
  IF b.parses THEN [kind |-> "json", of |-> b.raw] ELSE [kind |-> "text", of |-> b.raw]

NoUp == [status |-> 0, ctype |-> "none", body |-> [raw |-> "", parses |-> FALSE]]
UpStatuses == {200, 204, 304, 404, 422, 500}
UpTypes == {"none", "video/mp4", "application/json"}
Upstreams == [status : UpStatuses, ctype : UpTypes, body : UpBodies]

\* r.ok
respOkLoose(r) == r.status < 400
respOk(r) == r.status >= 200 /\ r.status <= 299

\* r.headers.get('content-type') || 'application/octet-stream'
contentTypeOf(r) == IF r.ctype = "none" THEN "application/octet-stream" ELSE r.ctype

ProxyIdle ==
  [pc |-> "off", route |-> "none", target |-> NoTarget, fetches |-> <<>>,
   r |-> NoUp, netFailed |-> FALSE, responses |-> <<>>]

ProxyResp(status, error) ==
  [status |-> status, error |-> error, upstatus |-> 0,
   body |-> [kind |-> "none", of |-> ""], ctype |-> "application/json", data |-> ""]

proxySend(p, resp) == [p EXCEPT !.responses = Append(@, resp), !.pc = "done"]

RoutePath(route) == IF route = "manim" THEN "/render" ELSE "/asy"

\* catch (e) { res.status(502).json({ error: 'Failed to reach ... service' }) }
proxyCatch(p) ==
  proxySend([p EXCEPT !.netFailed = TRUE], ProxyResp(502, "Failed to reach service"))

\* lines 196-203: the handler up to await fetch(...)
proxyReceive(p, route) ==
  IF Falsy(p.target)
    THEN proxySend([p EXCEPT !.route = route],
                   ProxyResp(500, "MANIM_SERVICE_URL not configured"))
    ELSE [p EXCEPT !.route = route, !.pc = "fetching",
                   !.fetches = Append(@, upstreamUrl(p.target.s, RoutePath(route)))]

ProxyReceive(route) ==
  /\ proxy.pc = "idle"
  /\ proxy' = proxyReceive(proxy, route)
  /\ UNCHANGED <<env, req, fs, probe, loc, other, gen, share>>

\* await fetch(...) settles: it rejects, or resolves to the upstream response
ProxyFetchDone(ok, up) ==
  /\ proxy.pc = "fetching"
  /\ IF ~ok
       THEN up = NoUp /\ proxy' = proxyCatch(proxy)
       ELSE /\ up # NoUp
            /\ proxy' = [proxy EXCEPT !.r = up,
                           !.pc = IF ~respOk(up) THEN "readText" ELSE "readBuf"]
  /\ UNCHANGED <<env, req, fs, probe, loc, other, gen, share>>

\* lines 204-207: await r.text() settles
ProxyTextDone(ok) ==
  /\ proxy.pc = "readText"
  /\ proxy' = IF ~ok THEN proxyCatch(proxy)
              ELSE proxySend(proxy, [ProxyResp(502, "Upstream error") EXCEPT
                                       !.upstatus = proxy.r.status,
                                       !.body = safeJson(proxy.r.body)])
  /\ UNCHANGED <<env, req, fs, probe, loc, other, gen, share>>

\* lines 208-212: await r.arrayBuffer() settles
ProxyBufDone(ok) ==
  /\ proxy.pc = "readBuf"
  /\ proxy' = IF ~ok THEN proxyCatch(proxy)
              ELSE proxySend(proxy, [ProxyResp(200, "") EXCEPT
                                       !.ctype = contentTypeOf(proxy.r),
                                       !.data = proxy.r.body.raw])
  /\ UNCHANGED <<env, req, fs, probe, loc, other, gen, share>>

(***************************************************************************)
(* Web server: POST /api/gen-video                                         *)
(***************************************************************************)
TimeoutMs == 300000       \* const timeoutMs = 5 * 60 * 1000
PollDelayMs == 8000       \* await delay(8000)
MaxLatency == 2           \* seconds an await can take beyond its minimum

Latencies == {1000 * k : k \in 0..MaxLatency}     \* in milliseconds

\* now is the wall clock (Date.now()); polls, lastPoll, gapOk and latePoll
\* record when getVideosOperation was called
GenIdle ==
  [pc |-> "off", now |-> 0, started |-> 0, opDone |-> FALSE, hasUri |-> FALSE,
   polls |-> 0, lastPoll |-> 0, gapOk |-> TRUE, latePoll |-> FALSE,
   pollFailed |-> FALSE, responses |-> <<>>]

genSend(g, resp) == [g EXCEPT !.responses = Append(@, resp), !.pc = "done"]

\* catch (e) { res.status(500).json({ error: 'Video generation failed', ... }) }
genCatch(g) == genSend(g, [status |-> 500, error |-> "Video generation failed"])

\* lines 179-182: the loop has ended; the uri is taken from the operation
genAfterLoop(g) ==
  IF ~g.hasUri THEN genSend(g, [status |-> 502, error |-> "No video uri in operation result"])
  ELSE [g EXCEPT !.pc = "fetching"]

\* lines 172-174: the loop test, the timeout test, and the call of delay(8000)
genLoop(g) ==
  IF g.opDone THEN genAfterLoop(g)
  ELSE IF g.now - g.started > TimeoutMs
    THEN genSend(g, [status |-> 504, error |-> "Video generation timed out"])
  ELSE [g EXCEPT !.pc = "delay"]

\* lines 158-165: the handler up to await ai.models.generateVideos(...)
GenReceive(prompt, key) ==
  /\ gen.pc = "idle"
  /\ gen' = IF Falsy(prompt) \/ prompt.t # "string"
              THEN genSend(gen, [status |-> 400, error |-> "Missing prompt (string)"])
            ELSE IF Falsy(key)
              THEN genSend(gen, [status |-> 500,
                                 error |-> "Server misconfigured: GEMINI_API_KEY not set"])
            ELSE [gen EXCEPT !.pc = "creating"]
  /\ UNCHANGED <<env, req, fs, probe, loc, other, proxy, share>>

\* await ai.models.generateVideos(...) settles; started = Date.now()
GenCreateDone(ok, done, uri, lat) ==
  /\ gen.pc = "creating"
  /\ (~ok \/ ~done) => ~uri
  /\ ~ok => ~done
  /\ LET g == [gen EXCEPT !.now = @ + lat]
     IN gen' = IF ~ok THEN genCatch(g)
               ELSE genLoop([g EXCEPT !.started = g.now, !.opDone = done, !.hasUri = uri])
  /\ UNCHANGED <<env, req, fs, probe, loc, other, proxy, share>>

\* the timer of delay(8000) fires, at the earliest 8000 ms after it was set;
\* ai.operations.getVideosOperation(...) is called
GenTimer(lat) ==
  /\ gen.pc = "delay"
  /\ LET t == gen.now + PollDelayMs + lat
     IN gen' = [gen EXCEPT !.now = t, !.pc = "polling",
                           !.polls = IF @ < 2 THEN @ + 1 ELSE @,
                           !.lastPoll = t,
                           !.gapOk = @ /\ (gen.polls = 0 \/ t - gen.lastPoll >= PollDelayMs),
                           !.latePoll = @ \/ (t - gen.started > TimeoutMs)]
  /\ UNCHANGED <<env, req, fs, probe, loc, other, proxy, share>>

\* await ai.operations.getVideosOperation(...) settles
GenPollDone(ok, done, uri, lat) ==
  /\ gen.pc = "polling"
  /\ (~ok \/ ~done) => ~uri
  /\ ~ok => ~done
  /\ LET g == [gen EXCEPT !.now = @ + lat]
     IN gen' = IF ~ok THEN genCatch([g EXCEPT !.pollFailed = TRUE])
               ELSE genLoop([g EXCEPT !.opDone = done, !.hasUri = uri])
  /\ UNCHANGED <<env, req, fs, probe, loc, other, proxy, share>>

\* lines 183-188: await fetch(signedUri) settles
GenFetchDone(ok, vrOk) ==
  /\ gen.pc = "fetching"
  /\ ~ok => ~vrOk
  /\ gen' = IF ~ok THEN genCatch(gen)
            ELSE [gen EXCEPT !.pc = IF vrOk THEN "readBuf" ELSE "readText"]
  /\ UNCHANGED <<env, req, fs, probe, loc, other, proxy, share>>

\* await vr.text() settles
GenTextDone(ok) ==
  /\ gen.pc = "readText"
  /\ gen' = IF ~ok THEN genCatch(gen)
            ELSE genSend(gen, [status |-> 502, error |-> "Video download failed"])
  /\ UNCHANGED <<env, req, fs, probe, loc, other, proxy, share>>

\* await vr.arrayBuffer() settles
GenBufDone(ok) ==
  /\ gen.pc = "readBuf"
  /\ gen' = IF ~ok THEN genCatch(gen) ELSE genSend(gen, [status |-> 200, error |-> ""])
  /\ UNCHANGED <<env, req, fs, probe, loc, other, proxy, share>>

(***************************************************************************)
(* Web server: POST /api/share                                             *)
(***************************************************************************)
MaxTries == 5             \* for (let i = 0; i < 5; i++)
ShareRequests == 2        \* share requests in flight at once
Ids == {"x", "y"}         \* the ids makeId(10) can draw

\* store: the files SHARE_DIR/<id>.json, each with the request whose payload
\* it holds; returned: the shares whose id went out in a 200 response;
\* overwrote: a write replaced a file that existed
ShareIdle ==
  [store |-> [d \in {} |-> 0],
   reqs |-> [c \in 1..ShareRequests |->
               [pc |-> "idle", id |-> "none", i |-> 0, responses |-> <<>>]],
   returned |-> {}, overwrote |-> FALSE]

\* res.status(status).json({ id, .. }), id "none" in an error response
shareSend(q, resp) == [q EXCEPT !.responses = Append(@, resp), !.pc = "done"]

\* lines 62-76: the handler up to await ensureShareDir()
ShareReceive(c, md) ==
  /\ share.reqs[c].pc = "idle"
  /\ share' = [share EXCEPT !.reqs[c] =
                 IF md.t # "string" THEN shareSend(@, [status |-> 400, id |-> "none"])
                 ELSE [@ EXCEPT !.pc = "mkdir"]]
  /\ UNCHANGED <<env, req, fs, probe, loc, other, proxy, gen>>

\* await ensureShareDir() settles (its error is swallowed); id = makeId(10)
\* and the loop is entered: fs.access is called
ShareMkdirDone(c, id) ==
  /\ share.reqs[c].pc = "mkdir"
  /\ share' = [share EXCEPT !.reqs[c] = [@ EXCEPT !.id = id, !.i = 0, !.pc = "access"]]
  /\ UNCHANGED <<env, req, fs, probe, loc, other, proxy, gen>>

\* one turn of the loop once await fs.access(..) has settled: it resolved
\* (the file exists: a new id is drawn, i++) or it rejected (break)
accessed(q, exists, id) ==
  IF exists
    THEN [q EXCEPT !.id = id, !.i = @ + 1,
                   !.pc = IF q.i + 1 < MaxTries THEN "access" ELSE "write"]
    ELSE [q EXCEPT !.pc = "write"]

ShareAccessDone(c, id) ==
  /\ share.reqs[c].pc = "access"
  /\ LET exists == share.reqs[c].id \in DOMAIN share.store
     IN /\ ~exists => id = share.reqs[c].id
        /\ share' = [share EXCEPT !.reqs[c] = accessed(@, exists, id)]
  /\ UNCHANGED <<env, req, fs, probe, loc, other, proxy, gen>>

\* await fs.writeFile(SHARE_DIR/<id>.json, ...) settles: the file is created
\* or replaced and 200 {id, url} is sent, or the catch block answers 500
ShareWriteDone(c, ok) ==
  /\ share.reqs[c].pc = "write"
  /\ LET q == share.reqs[c]
     IN share' =
          IF ok
            THEN [share EXCEPT
                    !.store = [d \in DOMAIN share.store \cup {q.id} |->
                                 IF d = q.id THEN c ELSE share.store[d]],
                    !.overwrote = @ \/ q.id \in DOMAIN share.store,
                    !.returned = @ \cup {[id |-> q.id, by |-> c]},
                    !.reqs[c] = shareSend(q, [status |-> 200, id |-> q.id])]
            ELSE [share EXCEPT !.reqs[c] = shareSend(q, [status |-> 500, id |-> "none"])]
  /\ UNCHANGED <<env, req, fs, probe, loc, other, proxy, gen>>

(***************************************************************************)
(* Specifications                                                          *)
(***************************************************************************)
Init ==
  /\ env \in {[MANIM_BIN |-> NoBin], [MANIM_BIN |-> "/opt/manim"]}
  /\ req = ReqIdle
  /\ fs = NoFiles
  /\ probe = ProbeIdle
  /\ loc = LocIdle
  /\ other = ReqIdle /\ proxy = ProxyIdle /\ gen = GenIdle /\ share = ShareIdle

Next ==
  \/ \E ep \in {"render", "asy"}, body \in Bodies : Receive(ep, body)
  \/ \E bl, bd \in HostBehaviours : ProbeLatexDone(bl, bd)
  \/ \E b \in HostBehaviours : ProbeAsyDone(b)
  \/ \E ok \in BOOLEAN : MkdtempDone(ok, CHOOSE x \in Suffixes : TRUE)
  \/ \E ok, throws \in BOOLEAN : WriteFileDone(ok, throws)
  \/ \E exists, throws \in BOOLEAN : StatVenvDone(exists, throws)
  \/ \E b \in HostBehaviours, throws \in BOOLEAN : ProbeXvfbDone(b, throws)
  \/ \E stream \in {"stdout", "stderr"} : ChildData(stream)
  \/ ChildError
  \/ \E e \in CloseEvs, tree \in ChildTrees(req.ep, req.fmt) : ChildClose(e, tree)
  \/ \E throws \in BOOLEAN : FindDone(throws)
  \/ \E ok \in BOOLEAN : ReadDone(ok)
  \/ \E ok \in BOOLEAN : RmDone(ok)

\* one request on an empty temporary area: the name fs.mkdtemp draws is
\* immaterial, so one name stands for all
Spec == Init /\ [][Next]_vars

\* the availability prober on its own
InitProbe ==
  /\ probe \in {[ProbeIdle EXCEPT !.beh = b] : b \in ProbeBehaviours}
  /\ env = EnvIdle /\ req = ReqIdle /\ fs = NoFiles /\ loc = LocIdle
  /\ other = ReqIdle /\ proxy = ProxyIdle /\ gen = GenIdle /\ share = ShareIdle

NextProbe ==
  \/ ProbeCall
  \/ \E i \in 1..Len(probe.calls) : ProbeEvent(i)
  \/ ProbeAwait

SpecProbe == InitProbe /\ [][NextProbe]_vars

\* the artifact locators on their own
InitLoc ==
  /\ loc \in {[LocIdle EXCEPT !.fn = "findFileRecursive", !.tree = t,
                              !.fileName = NOutMp4, !.pc = "call"] : t \in LocTrees}
          \cup {[LocIdle EXCEPT !.fn = "findAsyOutput", !.tree = t, !.ext = <<"svg">>,
                                !.stem = <<"out">>, !.pc = "call"] : t \in LocTrees}
  /\ env = EnvIdle /\ req = ReqIdle /\ fs = NoFiles /\ probe = ProbeIdle
  /\ other = ReqIdle /\ proxy = ProxyIdle /\ gen = GenIdle /\ share = ShareIdle

NextLoc == LocFindFile \/ LocFindAsy

SpecLoc == InitLoc /\ [][NextLoc]_vars

\* two /render requests in flight at once, sharing the temporary area
InitConc ==
  /\ env = [MANIM_BIN |-> "/opt/manim"]
  /\ req = ReqIdle /\ other = ReqIdle /\ fs = NoFiles
  /\ probe = ProbeIdle /\ loc = LocIdle /\ proxy = ProxyIdle /\ gen = GenIdle
  /\ share = ShareIdle

NextConc ==
  \/ Receive("render", [code |-> Str(<<"x", "=", "Tex">>), quality |-> Undefined,
                        format |-> Undefined])
  \/ \E sfx \in Suffixes : MkdtempDone(TRUE, sfx)
  \/ WriteFileDone(TRUE, FALSE)
  \/ ChildData("stdout")
  \/ ChildError
  \/ \E e \in {CloseEv(0), CloseEv(1)}, tree \in ChildTrees(req.ep, req.fmt) :
        ChildClose(e, tree)
  \/ \E throws \in BOOLEAN : FindDone(throws)
  \/ \E ok \in BOOLEAN : ReadDone(ok)
  \/ RmDone(TRUE)
  \/ Switch

SpecConc == InitConc /\ [][NextConc]_vars

\* the proxy routes of the web server on their own
InitProxy ==
  /\ proxy \in {[ProxyIdle EXCEPT !.pc = "idle", !.target = t] : t \in Targets}
  /\ env = EnvIdle /\ req = ReqIdle /\ fs = NoFiles /\ probe = ProbeIdle /\ loc = LocIdle
  /\ other = ReqIdle /\ gen = GenIdle /\ share = ShareIdle

NextProxy ==
  \/ \E route \in {"manim", "asy"} : ProxyReceive(route)
  \/ \E ok \in BOOLEAN, up \in Upstreams \cup {NoUp} : ProxyFetchDone(ok, up)
  \/ \E ok \in BOOLEAN : ProxyTextDone(ok)
  \/ \E ok \in BOOLEAN : ProxyBufDone(ok)

SpecProxy == InitProxy /\ [][NextProxy]_vars

\* the video route of the web server on its own
InitGen ==
  /\ gen = [GenIdle EXCEPT !.pc = "idle"]
  /\ env = EnvIdle /\ req = ReqIdle /\ fs = NoFiles /\ probe = ProbeIdle /\ loc = LocIdle
  /\ other = ReqIdle /\ proxy = ProxyIdle /\ share = ShareIdle

NextGen ==
  \/ \E prompt \in {Undefined, Str(<<>>), Num(7), Str(<<"p">>)},
        key \in {Undefined, Str(<<"k">>)} : GenReceive(prompt, key)
  \/ \E ok, done, uri \in BOOLEAN, lat \in Latencies : GenCreateDone(ok, done, uri, lat)
  \/ \E lat \in Latencies : GenTimer(lat)
  \/ \E ok, done, uri \in BOOLEAN, lat \in Latencies : GenPollDone(ok, done, uri, lat)
  \/ \E ok, vrOk \in BOOLEAN : GenFetchDone(ok, vrOk)
  \/ \E ok \in BOOLEAN : GenTextDone(ok)
  \/ \E ok \in BOOLEAN : GenBufDone(ok)

SpecGen == InitGen /\ [][NextGen]_vars

\* the share route of the web server on its own, several requests at once
InitShare ==
  /\ share = ShareIdle
  /\ env = EnvIdle /\ req = ReqIdle /\ fs = NoFiles /\ probe = ProbeIdle /\ loc = LocIdle
  /\ other = ReqIdle /\ proxy = ProxyIdle /\ gen = GenIdle

NextShare ==
  \/ \E c \in 1..ShareRequests, md \in {Undefined, Num(7), Str(<<>>), Str(<<"m">>)} :
        ShareReceive(c, md)
  \/ \E c \in 1..ShareRequests, id \in Ids : ShareMkdirDone(c, id)
  \/ \E c \in 1..ShareRequests, id \in Ids : ShareAccessDone(c, id)
  \/ \E c \in 1..ShareRequests, ok \in BOOLEAN : ShareWriteDone(c, ok)

SpecShare == InitShare /\ [][NextShare]_vars

(***************************************************************************)
(* Properties                                                              *)
(***************************************************************************)
Has(q, label) == \E i \in 1..Len(q.trace) : q.trace[i] = label
Before(q, a, b) ==
  \A i, j \in 1..Len(q.trace) : (q.trace[i] = a /\ q.trace[j] = b) => i < j

\* the request can take no further step of its own: the route has returned
\* without a child, or the close handler has run to its end, and no removal
\* is in flight
Finished(q) ==
  /\ q.pc = "ended" \/ (q.pc = "spawned" /\ q.closePc = "done")
  /\ q.rmPending = 0

ValidCode(q) == q.pc # "idle" /\ ~(Falsy(q.body.code) \/ q.body.code.t # "string")

\* C1: a request that created its workspace and has finished has left no
\* workspace on disk (every removal that was started having succeeded).
C1_WorkspaceRemoved ==
  (Finished(req) /\ req.work # NoWork /\ ~req.rmFailed) => ~Exists(req.work)

\* C2: over the whole life of a request that acquired a workspace,
\* cleanup(work) is invoked at most once, and exactly once when it has finished.
C2_CleanupExactlyOnce ==
  /\ req.cleanups <= 1
  /\ (Finished(req) /\ req.work # NoWork) => req.cleanups = 1

\* C3: at most one response is ever sent, for every order of the child's error
\* and close events; a request whose route has returned early, whose child
\* failed to spawn or whose close handler has finished has exactly one.
C3_ExactlyOneResponse ==
  /\ Len(req.responses) <= 1
  /\ (req.pc = "ended" \/ req.errorFired \/ req.closePc = "done")
       => Len(req.responses) = 1

C3_Witness ==
  /\ req.errorFired /\ req.closeFired /\ req.closePc = "done"
  /\ Len(req.responses) = 1

\* C4: a request whose code is missing, empty or not a string is answered 400
\* and starts no probe, creates no workspace and spawns no process.
C4_MissingCode ==
  (req.pc # "idle" /\ (Falsy(req.body.code) \/ req.body.code.t # "string"))
    => /\ req.pc = "ended"
       /\ Len(req.responses) = 1 /\ req.responses[1].status = 400
       /\ req.trace = <<"validate_code", "respond">>
       /\ req.work = NoWork /\ ~req.spawned /\ fs = NoFiles

C4_Witness ==
  /\ req.ep = "asy" /\ req.body.code = Num(7) /\ req.pc = "ended"
  /\ req.responses[1].status = 400

\* C5: a /render request whose code calls Tex( or MathTex(: when a probe finds
\* latex or dvisvgm unavailable the answer is 422 with missing.latex false
\* exactly when latex is unavailable and missing.dvisvgm false exactly when
\* dvisvgm is unavailable, with no workspace and no render process; when both
\* are available the request goes on to the selector checks.
C5_LatexProbe ==
  (req.ep = "render" /\ ValidCode(req) /\ usesLatexRe(text(req.body.code))
     /\ req.pc # "probeLatex")
    => IF req.seen.latex = "ok" /\ req.seen.dvisvgm = "ok"
         THEN /\ Has(req, "validate_quality")
              /\ \A i \in 1..Len(req.responses) : req.responses[i].status # 422
         ELSE /\ req.pc = "ended"
              /\ Len(req.responses) = 1
              /\ req.responses[1].status = 422
              /\ req.responses[1].missing.latex = (req.seen.latex = "ok")
              /\ req.responses[1].missing.dvisvgm = (req.seen.dvisvgm = "ok")
              /\ req.work = NoWork /\ ~req.spawned /\ fs = NoFiles
              /\ ~Has(req, "acquire") /\ ~Has(req, "spawn")

C5_Witness ==
  /\ req.ep = "render" /\ req.seen.latex = "absent" /\ req.seen.dvisvgm = "ok"
  /\ req.responses[1].status = 422
  /\ req.responses[1].missing = [latex |-> FALSE, dvisvgm |-> TRUE]

\* the selectors of the body, read without regard to letter case
SelectorsInvalid(q) ==
  IF q.ep = "render"
    THEN \/ toLowerCase(Default(q.body.quality, "ql").s) \notin {"ql", "qm", "qh", "qp", "qk"}
         \/ toLowerCase(Default(q.body.format, "mp4").s) \notin {"mp4", "gif"}
    ELSE toLowerCase(Default(q.body.format, "png").s) \notin {"png", "svg"}

\* C6: a request with a quality or format outside the enumerated sets is
\* answered 400, with no workspace and no render process, whatever the probes
\* find on the host.
C6_InvalidSelectorIs400 ==
  (ValidCode(req) /\ req.pc \notin {"probeLatex", "probeAsy"} /\ SelectorsInvalid(req))
    => /\ Len(req.responses) = 1 /\ req.responses[1].status = 400
       /\ req.work = NoWork /\ ~req.spawned

\* C7: for /asy with a non-empty string code the compiler probe has resolved
\* before a workspace is acquired, and when the compiler is absent the answer
\* is 422 "Asymptote not found" with install hints, no workspace, no process.
C7_AsyProbe ==
  (req.ep = "asy" /\ ValidCode(req))
    => /\ req.trace[2] = "probe"
       /\ (Has(req, "acquire") \/ req.work # NoWork)
            => (Has(req, "probe_done") /\ Before(req, "probe_done", "acquire")
                /\ req.seen.asy = "ok")
       /\ (req.seen.asy = "absent")
            => /\ req.pc = "ended"
               /\ Len(req.responses) = 1
               /\ req.responses[1].status = 422
               /\ req.responses[1].error = "Asymptote not found"
               /\ req.responses[1].hints > 0
               /\ req.work = NoWork /\ ~req.spawned /\ fs = NoFiles

C7_Witness ==
  /\ req.ep = "asy" /\ req.seen.asy = "absent" /\ req.pc = "ended"
  /\ req.responses[1].error = "Asymptote not found"

\* the place of a step in the sequence validate, precondition-probe, acquire,
\* write, spawn, await-exit, locate, read, respond, release
Rank(label) ==
  CASE label \in {"validate_code", "validate_quality", "validate_format"} -> 1
    [] label \in {"probe", "probe_done"} -> 2
    [] label \in {"acquire", "acquire_done"} -> 3
    [] label \in {"write", "write_done"} -> 4
    [] label \in {"select", "probe_wrapper", "spawn"} -> 5
    [] label \in {"exit", "error"} -> 6
    [] label \in {"locate", "locate_done"} -> 7
    [] label \in {"read", "read_done"} -> 8
    [] label = "respond" -> 9
    [] label = "release" -> 10

\* C8: the steps of a request occur in the order validate, probe, acquire,
\* write, spawn, await-exit, locate, read, respond, release: no step of an
\* earlier stage (validation included) follows a step of a later stage.
C8_StepOrder ==
  \A i, j \in 1..Len(req.trace) :
     i < j => Rank(req.trace[i]) <= Rank(req.trace[j])

\* the names of the regular files listed in a directory itself
RootFileNames(listing) == {e.name : e \in {x \in Range(listing) : x.kind = "file"}}

\* C9: findAsyOutput returns the existing name of highest preference in the
\* order stem.ext, stem-0.ext, stem-1.ext, whatever the order in which the
\* workspace directory lists its files.
C9_PreferenceOrder ==
  (loc.pc = "returned" /\ loc.fn = "findAsyOutput")
    => LET F == RootFileNames(loc.tree)
           n0 == loc.stem \o <<".">> \o loc.ext
           n1 == loc.stem \o <<"-0", ".">> \o loc.ext
           n2 == loc.stem \o <<"-1", ".">> \o loc.ext
       IN /\ n0 \in F => loc.result = join(Work, n0)
          /\ (n0 \notin F /\ n1 \in F) => loc.result = join(Work, n1)
          /\ (n0 \notin F /\ n1 \notin F /\ n2 \in F) => loc.result = join(Work, n2)

\* C10: cmdExists never rejects; once spawn has thrown or an event has fired
\* it is resolved, to false after a throw or a first 'error', and after a
\* first 'close' to true exactly when the code is 0 or 1; later events do not
\* change the value.
C10_CmdExists ==
  \A i \in 1..Len(probe.calls) :
     LET c == probe.calls[i] IN
       /\ c.promise.settled \in {"pending", "resolved"}
       /\ probe.beh.throws => (c.promise.settled = "resolved" /\ ~c.promise.value)
       /\ c.fired # <<>> =>
            /\ c.promise.settled = "resolved"
            /\ c.promise.value =
                 (c.fired[1].ev = "close" /\ ~c.fired[1].signal
                    /\ c.fired[1].code \in {0, 1})
       /\ (c.promise.settled = "pending") => (c.fired = <<>> /\ c.pending # <<>>)

C10_Witness ==
  \E i \in 1..Len(probe.calls) :
     /\ Len(probe.calls[i].fired) = 2
     /\ probe.calls[i].fired[1] = CloseEv(1)
     /\ probe.calls[i].fired[2].ev = "error"
     /\ probe.calls[i].promise.value

\* C11: the proxy routes send exactly one response: 500 "MANIM_SERVICE_URL
\* not configured" with no upstream request when the URL is unset; 502 after a
\* network-level failure; 502 with the upstream status and its body (parsed
\* when it parses as JSON, raw otherwise) after a non-2xx answer; else 200
\* with the upstream bytes and the upstream's declared content type.
C11_Proxy ==
  /\ Len(proxy.responses) <= 1
  /\ proxy.pc = "done" <=> Len(proxy.responses) = 1
  /\ (proxy.pc \notin {"off", "idle"} /\ (proxy.target.t = "undefined" \/ proxy.target.s = <<>>))
       => /\ proxy.pc = "done"
          /\ proxy.responses[1].status = 500
          /\ proxy.responses[1].error = "MANIM_SERVICE_URL not configured"
          /\ proxy.fetches = <<>>
  /\ proxy.fetches # <<>> =>
       /\ Len(proxy.fetches) = 1
       /\ proxy.fetches[1] = <<"http://svc", IF proxy.route = "manim" THEN "/render" ELSE "/asy">>
  /\ (proxy.pc = "done" /\ proxy.fetches # <<>>) =>
       LET resp == proxy.responses[1]
           up == proxy.r
       IN IF proxy.netFailed THEN resp.status = 502
          ELSE IF up.status \notin 200..299
            THEN /\ resp.status = 502
                 /\ resp.upstatus = up.status
                 /\ resp.body = [kind |-> IF up.body.parses THEN "json" ELSE "text",
                                 of |-> up.body.raw]
          ELSE /\ resp.status = 200
               /\ resp.data = up.body.raw
               /\ up.ctype # "none" => resp.ctype = up.ctype

C11_Witness ==
  /\ proxy.pc = "done" /\ ~proxy.netFailed
  /\ proxy.r.status = 304 /\ proxy.r.body.parses
  /\ proxy.responses[1].status = 502
  /\ proxy.responses[1].body.kind = "json"

\* the child's 'error' event was handled before any response had gone out
ErrorFirst(q) == q.errorFired /\ Before(q, "error", "respond")

\* C12: after the spawn the first failure answers, with 500 and its own
\* diagnostics: a non-zero close not preceded by an 'error' event gives
\* "render failed" with the exit code and all stdout and stderr received; exit
\* code 0 without artifact gives "Output not found" with stdout and stderr;
\* an 'error' event before any response gives "Failed to run" with the error
\* description; a spawn that throws gives "Server error" with the description.
\* A request answered 200 had no failure before its response.
C12_FailureDiagnostics ==
  /\ (req.cmdCfg # NoCmd /\ ~req.spawned)
       => /\ Len(req.responses) = 1
          /\ req.responses[1].status = 500 /\ req.responses[1].details # ""
          /\ req.responses[1].ctype = "application/json"
  /\ (req.spawned /\ (req.errorFired \/ req.failure # "none"))
       => /\ Len(req.responses) = 1
          /\ LET r == req.responses[1]
                 ef == ErrorFirst(req)
             IN /\ ef
                     => /\ r.status = 500 /\ r.error = "Failed to run"
                        /\ r.details # "" /\ r.ctype = "application/json"
                /\ (~ef /\ req.failure = "nonzero")
                     => /\ r.status = 500 /\ r.ctype = "application/json"
                        /\ ~CodeIs(req.exit, 0) /\ r.exit = req.exit
                        /\ r.stdout = req.stdout /\ r.stderr = req.stderr
                /\ (~ef /\ req.failure = "notfound")
                     => /\ r.status = 500 /\ r.error = "Output not found"
                        /\ r.ctype = "application/json"
                        /\ r.stdout = req.stdout /\ r.stderr = req.stderr
                /\ (~ef /\ req.failure = "io")
                     => /\ r.status = 500 /\ r.details # ""
                        /\ r.ctype = "application/json"
                /\ r.status \in 200..299
                     => /\ req.failure = "none" /\ CodeIs(req.exit, 0)
                        /\ Before(req, "respond", "error")

C12_Witness ==
  /\ req.spawned /\ req.failure = "nonzero" /\ ~req.errorFired
  /\ req.exit = CloseEv(2)
  /\ Len(req.stdout) = MaxData /\ Len(req.stderr) = MaxData
  /\ req.responses[1].stdout = req.stdout /\ req.responses[1].exit = CloseEv(2)

\* C12 as worded: every close with a non-zero code is answered with the exit
\* code and the streams, every missing artifact with "Output not found",
\* every 'error' event that precedes the close with its description, and none
\* of them with 2xx.
C12_AsWorded ==
  (req.spawned /\ (ErrorFirst(req) \/ req.failure \in {"nonzero", "notfound"}))
    => /\ Len(req.responses) = 1
       /\ LET r == req.responses[1]
          IN /\ r.status = 500
             /\ req.failure = "nonzero"
                  => (r.exit = req.exit /\ r.stdout = req.stdout /\ r.stderr = req.stderr)
             /\ req.failure = "notfound"
                  => (r.error = "Output not found" /\ r.stdout = req.stdout
                      /\ r.stderr = req.stderr)
             /\ (req.errorFired /\ Before(req, "error", "exit"))
                  => r.details # ""

\* a request that holds a workspace and still has steps to take
Active(q) == q.work # NoWork /\ ~Finished(q)

\* a step of the current request leaves the waiting request as it is and
\* touches no directory of the temporary area but its own workspace
OwnWorkspaceOnly ==
  \/ (req' = other /\ other' = req /\ fs' = fs)
  \/ /\ other' = other
     /\ \A d \in (DOMAIN fs \cup DOMAIN fs') \ {req.work, req'.work} :
          d \in DOMAIN fs /\ d \in DOMAIN fs' /\ fs'[d] = fs[d]

\* C13: two requests in flight never hold the same workspace directory, and
\* every step of a request leaves the other request's flag and buffers alone
\* and writes, reads, searches and removes only inside its own workspace.
C13_NoInteraction ==
  /\ []((Active(req) /\ Active(other)) => req.work # other.work)
  /\ [][OwnWorkspaceOnly]_vars

RequestedFormat(q) ==
  toLowerCase(Default(q.body.format, IF q.ep = "render" THEN "mp4" ELSE "png").s)

\* C15: a 200 response has the Content-Type of the requested format
\* (video/mp4, image/gif for /render; image/png, image/svg+xml for /asy), its
\* body is the content of the located artifact, and its Content-Length is the
\* length of that content.
C15_SuccessResponse ==
  \A i \in 1..Len(req.responses) :
     LET r == req.responses[i] IN
       r.status = 200 =>
         /\ r.ctype =
              (CASE req.ep = "render" /\ RequestedFormat(req) = "mp4" -> "video/mp4"
                 [] req.ep = "render" /\ RequestedFormat(req) = "gif" -> "image/gif"
                 [] req.ep = "asy" /\ RequestedFormat(req) = "png" -> "image/png"
                 [] req.ep = "asy" /\ RequestedFormat(req) = "svg" -> "image/svg+xml"
                 [] OTHER -> "none")
         /\ req.found # Null /\ r.data # <<>>
         /\ Exists(req.work) =>
              /\ readFile(req.found).kind = "file"
              /\ r.data = readFile(req.found).bytes
         /\ r.length = Len(r.data)

C15_Witness ==
  /\ req.ep = "asy" /\ req.body.format = Str("svg") /\ Exists(req.work)
  /\ Len(req.responses) = 1 /\ req.responses[1].status = 200
  /\ req.responses[1].ctype = "image/svg+xml"
  /\ req.found = <<req.work, <<"out", "-1", ".", "svg">> >>
  /\ req.responses[1].data = <<1, 1>> /\ req.responses[1].length = 2

\* the paths of the regular files of a tree, at any depth
RECURSIVE FilePaths(_, _)
FilePaths(dir, listing) ==
  UNION {IF e.kind = "file" THEN {join(dir, e.name)}
         ELSE IF e.kind = "dir" THEN FilePaths(join(dir, e.name), e.sub)
         ELSE {} : e \in Range(listing)}

IsFile(e) == e.kind = "file"
IsDir(e) == e.kind = "dir"

\* the regular files of a tree in traversal order: a directory's files in the
\* order it lists them, then its subdirectories, the one listed last first
RECURSIVE Traversal(_)
Traversal(stack) ==
  IF stack = <<>> THEN <<>>
  ELSE LET cur == Last(stack)
           files == SelectSeq(cur.ents, IsFile)
           dirs == SelectSeq(cur.ents, IsDir)
       IN [i \in 1..Len(files) |-> join(cur.path, files[i].name)]
            \o Traversal(Front(stack)
                          \o [i \in 1..Len(dirs) |->
                                 [path |-> join(cur.path, dirs[i].name), ents |-> dirs[i].sub]])

\* C16: findAsyOutput returns a regular file named stem.ext, stem-0.ext or
\* stem-1.ext whenever one exists at any depth; when none exists it returns
\* the first regular file with the extension in traversal order; and it
\* returns null when the tree has no regular file with the extension.
C16_AsyFallback ==
  (loc.pc = "returned" /\ loc.fn = "findAsyOutput")
    => LET hasExt(p) == endsWithExt(Last(p), loc.ext)
           P == {p \in FilePaths(Work, loc.tree) :
                   Last(p) \in preferredNames(loc.stem, loc.ext)}
           E == SelectSeq(Traversal(<<[path |-> Work, ents |-> loc.tree]>>), hasExt)
       IN /\ P # {} => loc.result \in P
          /\ (P = {} /\ E # <<>>) => loc.result = E[1]
          /\ E = <<>> => loc.result = Null

C16_Witness ==
  /\ loc.pc = "returned" /\ loc.fn = "findAsyOutput"
  /\ loc.tree = <<FileEnt(NFigSvg), DirEnt(NMedia, <<FileEnt(NOut1Svg)>>)>>
  /\ loc.result = <<Head(Work), NMedia, NOut1Svg>>

\* C17: findFileRecursive returns the path of a regular file named exactly
\* fileName when the tree has one at any depth, and null otherwise; it never
\* returns a directory, an entry that is not a regular file, or a file whose
\* name only extends fileName.
C17_ExactName ==
  (loc.pc = "returned" /\ loc.fn = "findFileRecursive")
    => LET M == {p \in FilePaths(Work, loc.tree) : Last(p) = loc.fileName}
       IN /\ M # {} => loc.result \in M
          /\ M = {} => loc.result = Null

C17_Witness ==
  /\ loc.pc = "returned" /\ loc.fn = "findFileRecursive"
  /\ loc.tree = <<FileEnt(NOutMp4Bak), DirEnt(NOutMp4, <<FileEnt(NOutMp4)>>)>>
  /\ loc.result = <<Head(Work), NOutMp4, NOutMp4>>

\* the tool arguments a /render body asks for
ToolArgs(q) ==
  <<"-", toLowerCase(Default(q.body.quality, "ql").s), "--format", RequestedFormat(q),
    "-o", "out", "work/scene.py", "GeneratedScene">>

C19_PollTimeout ==
  /\ gen.gapOk
  /\ ~gen.latePoll
  /\ (gen.pc = "done" /\ gen.polls > 0 /\ ~gen.opDone /\ ~gen.pollFailed
        /\ gen.now - gen.started > TimeoutMs)
       => gen.responses[1].status = 504
  /\ gen.responses # <<>> => (gen.pc = "done" /\ Len(gen.responses) = 1)

\* C20: a 200 response is binary and is sent only after the child closed with
\* code 0, the locator returned a path inside the request's workspace and
\* fs.readFile returned its bytes, with no release of the workspace started
\* before the read had finished; every other response is a JSON error with
\* status 400, 422 or 500.
C20_SuccessOnly ==
  \A i \in 1..Len(req.responses) :
     LET r == req.responses[i] IN
       IF r.status = 200
         THEN /\ r.ctype # "application/json" /\ r.data # <<>>
              /\ req.closeFired /\ CodeIs(req.exit, 0)
              /\ req.found # Null /\ Head(req.found) = req.work
              /\ Len(req.found) > 1
              /\ Has(req, "read_done")
              /\ Before(req, "read_done", "respond")
              /\ Before(req, "read_done", "release")
              /\ req.failure = "none"
         ELSE /\ r.status \in {400, 422, 500}
              /\ r.ctype = "application/json" /\ r.data = Null

C20_Witness ==
  /\ req.ep = "render" /\ req.fmt = "gif"
  /\ Len(req.responses) = 1 /\ req.responses[1].status = 200
  /\ req.found = <<req.work, NMedia, NOutGif>>
  /\ req.responses[1].data = <<7, 7>>
  /\ req.cleanups = 1 /\ ~Exists(req.work)

\* C21: no write of /api/share lands on an id that names an existing share
\* file, so every share whose id was returned to a client still holds the
\* payload of the request it was returned to.
C21_NeverOverwrites ==
  /\ ~share.overwrote
  /\ \A s \in share.returned :
       s.id \in DOMAIN share.store /\ share.store[s.id] = s.by
====
